---- MODULE Spec2Model ----
(***************************************************************************)
(* A model of the variant-record store of VCFResult.py: the keyed store of *)
(* field lists, its transforms (strip, merge, add_dp, filter_dp,           *)
(* filter_af, remove_empty, update, apply) and the sharing of field lists  *)
(* between the stores the transforms return.                               *)
(*                                                                         *)
(* A Python str is a sequence of one-character strings, a Python list is a *)
(* sequence, and every list of fields lives in a heap cell: a store's data *)
(* maps a record key to the address of its list, so that two stores that   *)
(* hold the same list object hold the same address.  Python indices are    *)
(* 0-based; At and Slice keep the source's index values.                   *)
(***************************************************************************)
EXTENDS Integers, Sequences, FiniteSets, TLC

VARIABLES
    stores,   \* the VCFResult objects alive, in the order they were made
    heap,     \* the lists of fields the stores' data point to
    last,     \* the latest call: its arguments, exception, result and the heap before it
    origin,   \* for every store, the call that returned it
    ncalls,   \* the transforms called so far
    nsets,    \* the direct assignments to a field made so far
    files,    \* for every store that was read, the lines it was read from
    disk      \* the file written last: its text and the store it was written from

vars == <<stores, heap, last, origin, ncalls, nsets, files, disk>>

(***************************************************************************)
(* Bounds of the exploration.                                              *)
(***************************************************************************)
\* the most transforms called on the two parsed stores and their results
MaxCalls == 1
\* the most direct assignments a client makes to a field of a record
MaxSets == 1
\* the most files read, the files written before included
MaxReads == 2

(***************************************************************************)
(* Python str and list primitives.                                         *)
(***************************************************************************)
\* seq[i] with a 0-based index (the caller checks the range)
At(seq, i) == seq[i + 1]

\* seq[i:] with a 0-based index; empty when i >= len(seq)
Slice(seq, i) == IF i >= Len(seq) THEN <<>> ELSE SubSeq(seq, i + 1, Len(seq))

\* seq[:i] with a 0-based index; the whole list when i >= len(seq)
Prefix(seq, i) == IF i >= Len(seq) THEN seq ELSE SubSeq(seq, 1, i)

\* [x] * n
RECURSIVE Repeat(_, _)
Repeat(x, n) == IF n <= 0 THEN <<>> ELSE <<x>> \o Repeat(x, n - 1)

\* s.split(sep) for a one-character separator: one piece more than there are
\* separators, empty pieces included
RECURSIVE SplitFrom(_, _, _, _)
SplitFrom(s, sep, i, cur) ==
    IF i > Len(s) THEN <<cur>>
    ELSE IF s[i] = sep THEN <<cur>> \o SplitFrom(s, sep, i + 1, <<>>)
    ELSE SplitFrom(s, sep, i + 1, Append(cur, s[i]))

Split(s, sep) == SplitFrom(s, sep, 1, <<>>)

\* sep.join(parts)
RECURSIVE Join(_, _)
Join(parts, sep) ==
    IF Len(parts) = 0 THEN <<>>
    ELSE IF Len(parts) = 1 THEN parts[1]
    ELSE parts[1] \o <<sep>> \o Join(Tail(parts), sep)

\* list.index(x): the 0-based position of the first x, -1 for ValueError
RECURSIVE IndexFrom(_, _, _)
IndexFrom(seq, x, i) ==
    IF i > Len(seq) THEN -1
    ELSE IF seq[i] = x THEN i - 1
    ELSE IndexFrom(seq, x, i + 1)

Index(seq, x) == IndexFrom(seq, x, 1)

\* c in s, for a character c
Contains(s, c) == \E i \in 1..Len(s) : s[i] = c

Digits == <<"0", "1", "2", "3", "4", "5", "6", "7", "8", "9">>

IsDigit(c) == \E d \in 1..10 : Digits[d] = c

DigitVal(c) == (CHOOSE d \in 1..10 : Digits[d] = c) - 1

\* int(s) for a string of decimal digits; -1 for ValueError (the empty string
\* and every string with another character in it)
RECURSIVE IntAcc(_, _, _)
IntAcc(s, i, acc) ==
    IF i > Len(s) THEN acc
    ELSE IF ~IsDigit(s[i]) THEN -1
    ELSE IntAcc(s, i + 1, acc * 10 + DigitVal(s[i]))

ParseInt(s) == IF Len(s) = 0 THEN -1 ELSE IntAcc(s, 1, 0)

\* str(n) for n >= 0
RECURSIVE FormatInt(_)
FormatInt(n) ==
    IF n < 10 THEN <<Digits[n + 1]>>
    ELSE Append(FormatInt(n \div 10), Digits[(n % 10) + 1])

\* float(s) for a plain decimal (digits, optionally a '.' and digits, one of the
\* two parts possibly empty) of at most three decimals, as a number of
\* thousandths; -1 for ValueError
ParseFloat(s) ==
    LET parts == Split(s, ".")
        whole == parts[1]
        frac  == IF Len(parts) = 2 THEN parts[2] ELSE <<>>
        w     == IF Len(whole) = 0 THEN 0 ELSE ParseInt(whole)
        f     == IF Len(frac) = 0 THEN 0
                 ELSE ParseInt(frac \o Repeat("0", 3 - Len(frac)))
    IN  IF Len(parts) > 2 \/ Len(frac) > 3 THEN -1
        ELSE IF Len(whole) = 0 /\ Len(frac) = 0 THEN -1
        ELSE IF w < 0 \/ f < 0 THEN -1
        ELSE w * 1000 + f

(***************************************************************************)
(* The text of the program and of its inputs.                              *)
(***************************************************************************)
Dot == <<".">>
GT  == <<"G", "T">>
AD  == <<"A", "D">>
DP  == <<"D", "P">>
AF  == <<"A", "F">>

VCF_HEADERS ==
    << <<"#", "C", "H", "R", "O", "M">>, <<"P", "O", "S">>, <<"I", "D">>,
       <<"R", "E", "F">>, <<"A", "L", "T">>, <<"Q", "U", "A", "L">>,
       <<"F", "I", "L", "T", "E", "R">>, <<"I", "N", "F", "O">>,
       <<"F", "O", "R", "M", "A", "T">> >>

\* the outcome of a step that can raise: the value and the exception's name
Ok(v)       == [val |-> v, err |-> "none"]
Raise(v, e) == [val |-> v, err |-> e]

\* the exception of the first element that raised, "none" when none did
FirstErr(rs) ==
    IF \E k \in 1..Len(rs) : rs[k].err # "none"
    THEN rs[CHOOSE k \in 1..Len(rs) :
                /\ rs[k].err # "none"
                /\ \A j \in 1..(k - 1) : rs[j].err = "none"].err
    ELSE "none"

\* fields[i] = v
SetAt(fields, i, v) == [fields EXCEPT ![i + 1] = v]

(***************************************************************************)
(* strip: the body of the loop over the records.  The result is the list   *)
(* as the loop body leaves it, also when the body raises half way.         *)
(***************************************************************************)
\* StripFields taking the k-th requested subfield from the k-th place of the
\* cell, whatever the record's FORMAT
StripFieldsInOrder(fields, subfields) ==
    LET n  == Len(fields)
        f2 == IF n > 2 THEN SetAt(fields, 2, Dot) ELSE fields
        f6 == IF n > 6 THEN SetAt(f2, 6, Dot) ELSE f2
        f7 == IF n > 7 THEN SetAt(f6, 7, Dot) ELSE f6
        _subfields == <<GT>> \o subfields
        names == Split(At(f7, 8), ":")
        found == [k \in 1..Len(_subfields) |-> Index(names, _subfields[k])]
        index_list == [k \in 1..Len(_subfields) |-> IF found[k] < 0 THEN -1 ELSE k - 1]
        f8 == SetAt(f7, 8, Join(_subfields, ":"))
        cell(x) ==
            LET l == Split(x, ":")
            IN  IF \E k \in 1..Len(index_list) : index_list[k] >= Len(l)
                THEN Raise(x, "IndexError")
                ELSE Ok(Join([k \in 1..Len(index_list) |-> At(l, index_list[k])], ":"))
        cells == [c \in 1..(n - 9) |-> cell(f8[9 + c])]
    IN  IF n <= 2 THEN Raise(fields, "IndexError")
        ELSE IF n <= 6 THEN Raise(f2, "IndexError")
        ELSE IF n <= 7 THEN Raise(f6, "IndexError")
        ELSE IF n <= 8 THEN Raise(f7, "IndexError")
        ELSE IF \E k \in 1..Len(index_list) : index_list[k] < 0
             THEN Raise(f7, "ValueError")
        ELSE IF FirstErr(cells) # "none" THEN Raise(f8, FirstErr(cells))
        ELSE Ok(Prefix(f8, 9) \o [c \in 1..(n - 9) |-> cells[c].val])

\* for record, fields in self.data.items(): the body
StripFields(fields, subfields) ==
    LET n  == Len(fields)
        f2 == IF n > 2 THEN SetAt(fields, 2, Dot) ELSE fields
        f6 == IF n > 6 THEN SetAt(f2, 6, Dot) ELSE f2
        f7 == IF n > 7 THEN SetAt(f6, 7, Dot) ELSE f6
        _subfields == <<GT>> \o subfields
        names == Split(At(f7, 8), ":")
        index_list == [k \in 1..Len(_subfields) |-> Index(names, _subfields[k])]
        f8 == SetAt(f7, 8, Join(_subfields, ":"))
        cell(x) ==
            LET l == Split(x, ":")
            IN  IF \E k \in 1..Len(index_list) : index_list[k] >= Len(l)
                THEN Raise(x, "IndexError")
                ELSE Ok(Join([k \in 1..Len(index_list) |-> At(l, index_list[k])], ":"))
        cells == [c \in 1..(n - 9) |-> cell(f8[9 + c])]
    IN  IF n <= 2 THEN Raise(fields, "IndexError")
        ELSE IF n <= 6 THEN Raise(f2, "IndexError")
        ELSE IF n <= 7 THEN Raise(f6, "IndexError")
        ELSE IF n <= 8 THEN Raise(f7, "IndexError")
        ELSE IF \E k \in 1..Len(index_list) : index_list[k] < 0
             THEN Raise(f7, "ValueError")
        ELSE IF FirstErr(cells) # "none" THEN Raise(f8, FirstErr(cells))
        ELSE Ok(Prefix(f8, 9) \o [c \in 1..(n - 9) |-> cells[c].val])

(***************************************************************************)
(* add_dp: func and the body of the loop.                                  *)
(***************************************************************************)
\* the loop over the depths of func: the sum, -2 once a depth is '.', -1 when
\* int(depth) raises
\* DepthSum passing over a depth that is '.'
RECURSIVE DepthSumOfPresent(_, _, _)
DepthSumOfPresent(ad, k, dp) ==
    IF k > Len(ad) THEN dp
    ELSE IF ad[k] = Dot THEN DepthSumOfPresent(ad, k + 1, dp)
    ELSE IF ParseInt(ad[k]) < 0 THEN -1
    ELSE DepthSumOfPresent(ad, k + 1, dp + ParseInt(ad[k]))

RECURSIVE DepthSum(_, _, _)
DepthSum(ad, k, dp) ==
    IF k > Len(ad) THEN dp
    ELSE IF ad[k] = Dot THEN -2
    ELSE IF ParseInt(ad[k]) < 0 THEN -1
    ELSE DepthSum(ad, k + 1, dp + ParseInt(ad[k]))

AddDpFunc(x, i) ==
    LET l  == Split(x, ":")
        dp == DepthSum(Split(At(l, i), ","), 1, 0)
    IN  IF i >= Len(l) THEN Raise(x, "IndexError")
        ELSE IF dp = -2 THEN Ok(x \o <<":", ".">>)
        ELSE IF dp = -1 THEN Raise(x, "ValueError")
        ELSE Ok(x \o <<":">> \o FormatInt(dp))

\* AddDpFields leaving alone a record whose FORMAT does not name AD
AddDpFieldsSkip(fields) ==
    LET n == Len(fields)
        i == Index(Split(At(fields, 8), ":"), AD)
        cells == [c \in 1..(n - 9) |-> AddDpFunc(fields[9 + c], i)]
    IN  IF n <= 8 THEN Raise(fields, "IndexError")
        ELSE IF i < 0 THEN Ok(fields)
        ELSE IF FirstErr(cells) # "none" THEN Raise(fields, FirstErr(cells))
        ELSE Ok(Prefix(SetAt(fields, 8, At(fields, 8) \o <<":">> \o DP), 9)
                \o [c \in 1..(n - 9) |-> cells[c].val])

\* for record, fields in self.data.items(): the body
AddDpFields(fields) ==
    LET n == Len(fields)
        i == Index(Split(At(fields, 8), ":"), AD)
        cells == [c \in 1..(n - 9) |-> AddDpFunc(fields[9 + c], i)]
    IN  IF n <= 8 THEN Raise(fields, "IndexError")
        ELSE IF i < 0 THEN Raise(fields, "ValueError")
        ELSE IF FirstErr(cells) # "none" THEN Raise(fields, FirstErr(cells))
        ELSE Ok(Prefix(SetAt(fields, 8, At(fields, 8) \o <<":">> \o DP), 9)
                \o [c \in 1..(n - 9) |-> cells[c].val])

(***************************************************************************)
(* filter_dp and filter_af: func and the body of the loop.  A threshold of *)
(* filter_af is a number of thousandths.                                   *)
(***************************************************************************)
\* MissingCell with the genotype '0/0' for './.'
RECURSIVE ReferenceCell(_)
ReferenceCell(k) ==
    IF k <= 0 THEN <<"0", "/", "0">> ELSE ReferenceCell(k - 1) \o <<":", ".">>

\* './.' + ':.' * k
RECURSIVE MissingCell(_)
MissingCell(k) ==
    IF k <= 0 THEN <<".", "/", ".">> ELSE MissingCell(k - 1) \o <<":", ".">>

\* FilterDpFunc with int(dp) <= threshold for int(dp) < threshold
FilterDpFuncAtMost(x, i, threshold) ==
    LET l  == Split(x, ":")
        dp == At(l, i)
    IN  IF i >= Len(l) THEN Raise(x, "IndexError")
        ELSE IF dp = Dot THEN Ok(MissingCell(Len(l) - 1))
        ELSE IF ParseInt(dp) < 0 THEN Raise(x, "ValueError")
        ELSE IF ParseInt(dp) <= threshold THEN Ok(MissingCell(Len(l) - 1))
        ELSE Ok(x)

FilterDpFunc(x, i, threshold) ==
    LET l  == Split(x, ":")
        dp == At(l, i)
    IN  IF i >= Len(l) THEN Raise(x, "IndexError")
        ELSE IF dp = Dot THEN Ok(MissingCell(Len(l) - 1))
        ELSE IF ParseInt(dp) < 0 THEN Raise(x, "ValueError")
        ELSE IF ParseInt(dp) < threshold THEN Ok(MissingCell(Len(l) - 1))
        ELSE Ok(x)

\* FilterAfFunc with ':.' * len(l) for ':.' * (len(l)-1)
FilterAfFuncLong(x, i, threshold) ==
    LET l  == Split(x, ":")
        af == At(l, i)
    IN  IF i >= Len(l) THEN Raise(x, "IndexError")
        ELSE IF af = Dot THEN Ok(MissingCell(Len(l)))
        ELSE IF ParseFloat(af) < 0 THEN Raise(x, "ValueError")
        ELSE IF ParseFloat(af) < threshold THEN Ok(MissingCell(Len(l)))
        ELSE Ok(x)

FilterAfFunc(x, i, threshold) ==
    LET l  == Split(x, ":")
        af == At(l, i)
    IN  IF i >= Len(l) THEN Raise(x, "IndexError")
        ELSE IF af = Dot THEN Ok(MissingCell(Len(l) - 1))
        ELSE IF ParseFloat(af) < 0 THEN Raise(x, "ValueError")
        ELSE IF ParseFloat(af) < threshold THEN Ok(MissingCell(Len(l) - 1))
        ELSE Ok(x)

FilterDpFields(fields, threshold) ==
    LET n == Len(fields)
        i == Index(Split(At(fields, 8), ":"), DP)
        cells == [c \in 1..(n - 9) |-> FilterDpFunc(fields[9 + c], i, threshold)]
    IN  IF n <= 8 THEN Raise(fields, "IndexError")
        ELSE IF i < 0 THEN Raise(fields, "ValueError")
        ELSE IF FirstErr(cells) # "none" THEN Raise(fields, FirstErr(cells))
        ELSE Ok(Prefix(fields, 9) \o [c \in 1..(n - 9) |-> cells[c].val])

FilterAfFields(fields, threshold) ==
    LET n == Len(fields)
        i == Index(Split(At(fields, 8), ":"), AF)
        cells == [c \in 1..(n - 9) |-> FilterAfFunc(fields[9 + c], i, threshold)]
    IN  IF n <= 8 THEN Raise(fields, "IndexError")
        ELSE IF i < 0 THEN Raise(fields, "ValueError")
        ELSE IF FirstErr(cells) # "none" THEN Raise(fields, FirstErr(cells))
        ELSE Ok(Prefix(fields, 9) \o [c \in 1..(n - 9) |-> cells[c].val])

(***************************************************************************)
(* remove_empty: the test of the loop body.                                *)
(***************************************************************************)
\* all(['.' in x.split(':')[0] for x in fields[9:]])
AllEmpty(fields) ==
    \A c \in 1..Len(Slice(fields, 9)) :
        Contains(At(Split(Slice(fields, 9)[c], ":"), 0), ".")

(***************************************************************************)
(* update: the filtered names, their indices and the body of the loop.     *)
(***************************************************************************)
\* targets without 'QUAL'
targetsWithoutQual ==
    << <<"I", "D">>, <<"F", "I", "L", "T", "E", "R">>,
       <<"I", "N", "F", "O">>, <<"F", "O", "R", "M", "A", "T">> >>

\* targets = ['ID', 'QUAL', 'FILTER', 'INFO', 'FORMAT']
targets ==
    << <<"I", "D">>, <<"Q", "U", "A", "L">>, <<"F", "I", "L", "T", "E", "R">>,
       <<"I", "N", "F", "O">>, <<"F", "O", "R", "M", "A", "T">> >>

InTargets(x) == \E t \in 1..Len(targets) : targets[t] = x

\* [VCF_HEADERS.index(x) for x in names if x in targets]
indicies(names) ==
    LET kept == SelectSeq(names, InTargets)
    IN  [k \in 1..Len(kept) |-> Index(VCF_HEADERS, kept[k])]

\* for i in indicies: fields1[i] = fields2[i]
RECURSIVE UpdateFields(_, _, _, _)
UpdateFields(fields1, fields2, idx, k) ==
    IF k > Len(idx) THEN Ok(fields1)
    ELSE IF idx[k] >= Len(fields2) \/ idx[k] >= Len(fields1)
         THEN Raise(fields1, "IndexError")
    ELSE UpdateFields(SetAt(fields1, idx[k], At(fields2, idx[k])), fields2, idx, k + 1)

(***************************************************************************)
(* apply: the functions a caller passes, and the body of the loop.         *)
(***************************************************************************)
\* "dot" is lambda x: '.', "tag" is lambda x: x + 'X'
ApplyFunc(func, x) == IF func = "dot" THEN Dot ELSE x \o <<"X">>

\* ApplyFields with fields[i] = func(fields[0])
ApplyFieldsOfFirst(fields, i, func) ==
    IF i >= Len(fields) THEN Raise(fields, "IndexError")
    ELSE Ok(SetAt(fields, i, ApplyFunc(func, At(fields, 0))))

\* fields[i] = func(fields[i])
ApplyFields(fields, i, func) ==
    IF i >= Len(fields) THEN Raise(fields, "IndexError")
    ELSE Ok(SetAt(fields, i, ApplyFunc(func, At(fields, i))))

(***************************************************************************)
(* The store.  data is the dict in insertion order: a sequence of entries  *)
(* [key, ref], ref being the heap address of the record's list of fields.  *)
(* tuple tells whether head is the tuple VCF_HEADERS or a list.            *)
(***************************************************************************)
\* VCFResult(): meta = [], head = VCF_HEADERS, data = {}
NewStore == [meta |-> <<>>, head |-> VCF_HEADERS, tuple |-> TRUE, data |-> <<>>]

\* record in data
Has(data, key) == \E j \in 1..Len(data) : data[j].key = key

\* data[record]
Get(data, key) == data[CHOOSE j \in 1..Len(data) : data[j].key = key].ref

\* Put leaving a known key with the list it had
PutKeepingFirst(data, key, ref) ==
    IF Has(data, key) THEN data ELSE Append(data, [key |-> key, ref |-> ref])

\* data[record] = fields: a known key keeps its place, a new one goes last
Put(data, key, ref) ==
    IF Has(data, key)
    THEN [j \in 1..Len(data) |->
            IF data[j].key = key THEN [key |-> key, ref |-> ref] ELSE data[j]]
    ELSE Append(data, [key |-> key, ref |-> ref])

\* the keys of a dict, in its iteration order
Keys(data) == [j \in 1..Len(data) |-> data[j].key]

\* shape[0]: len(head[9:])
Shape0(store) == Len(Slice(store.head, 9))

(***************************************************************************)
(* The loops `for record, fields in self.data.items()` of strip, add_dp,   *)
(* filter_dp, filter_af, update and apply: the body rewrites the list in   *)
(* place and the returned store receives the same list object.  A body     *)
(* that raises ends the loop with the lists changed so far left changed.   *)
(***************************************************************************)
\* the heap once a loop body has run on the list at ref, and its exception
Wrote(h, ref, r) == [heap |-> [h EXCEPT ![ref] = r.val], err |-> r.err]

\* how a loop ends: the heap, the exception and the returned store's data
Looped(h, e, out) == [heap |-> h, err |-> e, data |-> out]

\* what a call leaves behind: the heap, the exception and the returned store
Outcome(h, e, s) == [heap |-> h, err |-> e, store |-> s]

\* Copied with vcf_result.meta = self.meta as well
CopiedWithMeta(self, r) ==
    Outcome(r.heap, r.err, [NewStore EXCEPT !.meta = self.meta,
                                             !.head = self.head,
                                             !.tuple = self.tuple,
                                             !.data = r.data])

\* vcf_result.head = copy.deepcopy(self.head), and the data the loop filled
Copied(self, r) ==
    Outcome(r.heap, r.err, [NewStore EXCEPT !.head = self.head,
                                             !.tuple = self.tuple,
                                             !.data = r.data])

\* strip, lines 48-63
RECURSIVE StripLoop(_, _, _, _, _)
StripLoop(h, data, subfields, j, out) ==
    IF j > Len(data) THEN Looped(h, "none", out)
    ELSE LET w == Wrote(h, data[j].ref, StripFields(h[data[j].ref], subfields))
         IN  IF w.err # "none" THEN Looped(w.heap, w.err, out)
             ELSE StripLoop(w.heap, data, subfields, j + 1,
                       Put(out, data[j].key, data[j].ref))

strip(h, self, subfields) ==
    Copied(self, StripLoop(h, self.data, subfields, 1, <<>>))

\* add_dp, lines 103-107
RECURSIVE AddDpLoop(_, _, _, _)
AddDpLoop(h, data, j, out) ==
    IF j > Len(data) THEN Looped(h, "none", out)
    ELSE LET w == Wrote(h, data[j].ref, AddDpFields(h[data[j].ref]))
         IN  IF w.err # "none" THEN Looped(w.heap, w.err, out)
             ELSE AddDpLoop(w.heap, data, j + 1,
                       Put(out, data[j].key, data[j].ref))

add_dp(h, self) == Copied(self, AddDpLoop(h, self.data, 1, <<>>))

\* filter_dp, lines 120-123
RECURSIVE FilterDpLoop(_, _, _, _, _)
FilterDpLoop(h, data, threshold, j, out) ==
    IF j > Len(data) THEN Looped(h, "none", out)
    ELSE LET w == Wrote(h, data[j].ref, FilterDpFields(h[data[j].ref], threshold))
         IN  IF w.err # "none" THEN Looped(w.heap, w.err, out)
             ELSE FilterDpLoop(w.heap, data, threshold, j + 1,
                          Put(out, data[j].key, data[j].ref))

filter_dp(h, self, threshold) ==
    Copied(self, FilterDpLoop(h, self.data, threshold, 1, <<>>))

\* filter_af, lines 136-139
RECURSIVE FilterAfLoop(_, _, _, _, _)
FilterAfLoop(h, data, threshold, j, out) ==
    IF j > Len(data) THEN Looped(h, "none", out)
    ELSE LET w == Wrote(h, data[j].ref, FilterAfFields(h[data[j].ref], threshold))
         IN  IF w.err # "none" THEN Looped(w.heap, w.err, out)
             ELSE FilterAfLoop(w.heap, data, threshold, j + 1,
                          Put(out, data[j].key, data[j].ref))

filter_af(h, self, threshold) ==
    Copied(self, FilterAfLoop(h, self.data, threshold, 1, <<>>))

\* if record in other.data: fields2 = other.data[record]; for i in indicies: ...
UpdateRecord(h, entry, other, idx) ==
    IF Has(other.data, entry.key)
    THEN UpdateFields(h[entry.ref], h[Get(other.data, entry.key)], idx, 1)
    ELSE Ok(h[entry.ref])

\* update, lines 177-182
RECURSIVE UpdateLoop(_, _, _, _, _, _)
UpdateLoop(h, data, other, idx, j, out) ==
    IF j > Len(data) THEN Looped(h, "none", out)
    ELSE LET w == Wrote(h, data[j].ref, UpdateRecord(h, data[j], other, idx))
         IN  IF w.err # "none" THEN Looped(w.heap, w.err, out)
             ELSE UpdateLoop(w.heap, data, other, idx, j + 1,
                        Put(out, data[j].key, data[j].ref))

update(h, self, other, names) ==
    Copied(self, UpdateLoop(h, self.data, other, indicies(names), 1, <<>>))

\* apply, lines 189-191
RECURSIVE ApplyLoop(_, _, _, _, _, _)
ApplyLoop(h, data, i, func, j, out) ==
    IF j > Len(data) THEN Looped(h, "none", out)
    ELSE LET w == Wrote(h, data[j].ref, ApplyFields(h[data[j].ref], i, func))
         IN  IF w.err # "none" THEN Looped(w.heap, w.err, out)
             ELSE ApplyLoop(w.heap, data, i, func, j + 1,
                       Put(out, data[j].key, data[j].ref))

\* apply: head stays the default VCF_HEADERS
Defaulted(r) == Outcome(r.heap, r.err, [NewStore EXCEPT !.data = r.data])

\* i = VCF_HEADERS.index(name) comes first
apply(h, self, name, func) ==
    IF Index(VCF_HEADERS, name) < 0 THEN Outcome(h, "ValueError", NewStore)
    ELSE Defaulted(ApplyLoop(h, self.data, Index(VCF_HEADERS, name), func, 1, <<>>))

\* remove_empty: no list is rewritten, the kept records share their lists
RECURSIVE KeepNonEmpty(_, _, _, _)
KeepNonEmpty(h, data, j, out) ==
    IF j > Len(data) THEN out
    ELSE IF AllEmpty(h[data[j].ref]) THEN KeepNonEmpty(h, data, j + 1, out)
    ELSE KeepNonEmpty(h, data, j + 1, Put(out, data[j].key, data[j].ref))

remove_empty(h, self) ==
    Outcome(h, "none", [NewStore EXCEPT !.head = self.head,
                                        !.tuple = self.tuple,
                                        !.data = KeepNonEmpty(h, self.data, 1, <<>>)])

(***************************************************************************)
(* merge.                                                                  *)
(***************************************************************************)
\* MergeFirst going through vcf1.data from its last record to its first
RECURSIVE MergeFirstReversed(_, _, _, _, _, _)
MergeFirstReversed(h, vcf1, vcf2, missing, j, out) ==
    IF j > Len(vcf1.data) THEN [heap |-> h, data |-> out]
    ELSE LET record == vcf1.data[Len(vcf1.data) + 1 - j].key
             fields == h[vcf1.data[Len(vcf1.data) + 1 - j].ref]
         IN  IF Has(vcf2.data, record)
             THEN MergeFirstReversed(h, vcf1, vcf2, missing, j + 1,
                     Put(out, record, vcf1.data[Len(vcf1.data) + 1 - j].ref))
             ELSE MergeFirstReversed(
                     Append(h, fields \o Repeat(missing, Shape0(vcf2))),
                     vcf1, vcf2, missing, j + 1,
                     Put(out, record, Len(h) + 1))

\* for record, fields in vcf1.data.items()
RECURSIVE MergeFirst(_, _, _, _, _, _)
MergeFirst(h, vcf1, vcf2, missing, j, out) ==
    IF j > Len(vcf1.data) THEN [heap |-> h, data |-> out]
    ELSE LET record == vcf1.data[j].key
             fields == h[vcf1.data[j].ref]
         IN  IF Has(vcf2.data, record)
             THEN MergeFirst(h, vcf1, vcf2, missing, j + 1,
                             Put(out, record, vcf1.data[j].ref))
             ELSE MergeFirst(Append(h, fields \o Repeat(missing, Shape0(vcf2))),
                             vcf1, vcf2, missing, j + 1,
                             Put(out, record, Len(h) + 1))

\* MergeSecond with [missing] * vcf2.shape[0] for [missing] * vcf1.shape[0]
RECURSIVE MergeSecondPadOther(_, _, _, _, _, _)
MergeSecondPadOther(h, vcf1, vcf2, missing, j, out) ==
    IF j > Len(vcf2.data) THEN [heap |-> h, data |-> out]
    ELSE LET record == vcf2.data[j].key
             fields == h[vcf2.data[j].ref]
         IN  IF Has(out, record)
             THEN MergeSecondPadOther([h EXCEPT ![Get(out, record)] = @ \o Slice(fields, 9)],
                                      vcf1, vcf2, missing, j + 1, out)
             ELSE MergeSecondPadOther(Append(h, Prefix(fields, 9)
                                                \o Repeat(missing, Shape0(vcf2))
                                                \o Slice(fields, 9)),
                                      vcf1, vcf2, missing, j + 1,
                                      Put(out, record, Len(h) + 1))

\* MergeSecond with += fields[8:] for += fields[9:]
RECURSIVE MergeSecondSlice8(_, _, _, _, _, _)
MergeSecondSlice8(h, vcf1, vcf2, missing, j, out) ==
    IF j > Len(vcf2.data) THEN [heap |-> h, data |-> out]
    ELSE LET record == vcf2.data[j].key
             fields == h[vcf2.data[j].ref]
         IN  IF Has(out, record)
             THEN MergeSecondSlice8([h EXCEPT ![Get(out, record)] = @ \o Slice(fields, 8)],
                                    vcf1, vcf2, missing, j + 1, out)
             ELSE MergeSecondSlice8(Append(h, Prefix(fields, 9)
                                              \o Repeat(missing, Shape0(vcf1))
                                              \o Slice(fields, 9)),
                                    vcf1, vcf2, missing, j + 1,
                                    Put(out, record, Len(h) + 1))

\* MergeSecond with the templates after the second store's cells
RECURSIVE MergeSecondPadLast(_, _, _, _, _, _)
MergeSecondPadLast(h, vcf1, vcf2, missing, j, out) ==
    IF j > Len(vcf2.data) THEN [heap |-> h, data |-> out]
    ELSE LET record == vcf2.data[j].key
             fields == h[vcf2.data[j].ref]
         IN  IF Has(out, record)
             THEN MergeSecondPadLast([h EXCEPT ![Get(out, record)] = @ \o Slice(fields, 9)],
                                     vcf1, vcf2, missing, j + 1, out)
             ELSE MergeSecondPadLast(Append(h, fields \o Repeat(missing, Shape0(vcf1))),
                                     vcf1, vcf2, missing, j + 1,
                                     Put(out, record, Len(h) + 1))

\* for record, fields in vcf2.data.items()
RECURSIVE MergeSecond(_, _, _, _, _, _)
MergeSecond(h, vcf1, vcf2, missing, j, out) ==
    IF j > Len(vcf2.data) THEN [heap |-> h, data |-> out]
    ELSE LET record == vcf2.data[j].key
             fields == h[vcf2.data[j].ref]
         IN  IF Has(out, record)
             THEN MergeSecond([h EXCEPT ![Get(out, record)] = @ \o Slice(fields, 9)],
                              vcf1, vcf2, missing, j + 1, out)
             ELSE MergeSecond(Append(h, Prefix(fields, 9)
                                        \o Repeat(missing, Shape0(vcf1))
                                        \o Slice(fields, 9)),
                              vcf1, vcf2, missing, j + 1,
                              Put(out, record, Len(h) + 1))

\* the second loop, on the heap and the dict the first loop left
MergeSecondOf(m1, vcf1, vcf2, missing) ==
    MergeSecond(m1.heap, vcf1, vcf2, missing, 1, m1.data)

\* vcf3, with head = vcf1.head + vcf2.head[9:]
MergeReturn(vcf1, vcf2, m2) ==
    Outcome(m2.heap, "none",
            [NewStore EXCEPT !.head = vcf1.head \o Slice(vcf2.head, 9),
                             !.tuple = vcf1.tuple,
                             !.data = m2.data])

\* the two loops, and the store merge returns
MergeLoops(h, vcf1, vcf2, missing) ==
    MergeReturn(vcf1, vcf2,
                MergeSecondOf(MergeFirst(h, vcf1, vcf2, missing, 1, <<>>),
                              vcf1, vcf2, missing))

\* MergeTemplate with a template of n + 1 subfields (range(0, n) for range(1, n))
MergeLongTemplate(h, vcf1, vcf2) ==
    MergeLoops(h, vcf1, vcf2,
               MissingCell(Len(Split(At(h[vcf2.data[1].ref], 8), ":"))))

\* missing = './.' and ':.' for each i in range(1, n), n being the number of
\* subfields of the FORMAT of the second store's first record
MergeTemplate(h, vcf1, vcf2) ==
    MergeLoops(h, vcf1, vcf2,
               MissingCell(Len(Split(At(h[vcf2.data[1].ref], 8), ":")) - 1))

\* after vcf2 = other.strip(subfields=subfields): the concatenation of a tuple
\* and a list raises, and so does next() on a store without records
MergeStripped(vcf1, s2) ==
    IF s2.err # "none" THEN Outcome(s2.heap, s2.err, NewStore)
    ELSE IF vcf1.tuple # s2.store.tuple THEN Outcome(s2.heap, "TypeError", NewStore)
    ELSE IF Len(s2.store.data) = 0 THEN Outcome(s2.heap, "StopIteration", NewStore)
    ELSE MergeTemplate(s2.heap, vcf1, s2.store)

\* MergeOther with vcf2 = other, not stripped
MergeOtherUnstripped(s1, other, subfields) ==
    IF s1.err # "none" THEN Outcome(s1.heap, s1.err, NewStore)
    ELSE MergeStripped(s1.store, Outcome(s1.heap, "none", other))

\* after vcf1 = self.strip(subfields=subfields)
MergeOther(s1, other, subfields) ==
    IF s1.err # "none" THEN Outcome(s1.heap, s1.err, NewStore)
    ELSE MergeStripped(s1.store, strip(s1.heap, other, subfields))

merge(h, self, other, subfields) ==
    MergeOther(strip(h, self, subfields), other, subfields)

(***************************************************************************)
(* read: one file, as the sequence of its lines.                           *)
(***************************************************************************)
IsSpace(c) == c = " " \/ c = "\t" \/ c = "\n"

\* line.strip(): no white space at either end
RECURSIVE LStrip(_)
LStrip(s) == IF Len(s) > 0 /\ IsSpace(s[1]) THEN LStrip(Tail(s)) ELSE s

RECURSIVE RStrip(_)
RStrip(s) ==
    IF Len(s) > 0 /\ IsSpace(s[Len(s)]) THEN RStrip(SubSeq(s, 1, Len(s) - 1)) ELSE s

StrStrip(s) == RStrip(LStrip(s))

\* line.startswith(p)
StartsWith(s, p) == Len(s) >= Len(p) /\ SubSeq(s, 1, Len(p)) = p

\* '{}:{}:{}:{}'.format(fields[0], fields[1], fields[3], fields[4])
RecordKey(fields) ==
    Join(<<At(fields, 0), At(fields, 1), At(fields, 3), At(fields, 4)>>, ":")

\* for line in f
RECURSIVE ReadLines(_, _, _, _)
ReadLines(lines, j, h, vcf_result) ==
    IF j > Len(lines) THEN Outcome(h, "none", vcf_result)
    ELSE LET line   == lines[j]
             fields == Split(StrStrip(line), "\t")
         IN  IF StartsWith(line, <<"#", "#">>)
             THEN ReadLines(lines, j + 1, h,
                            [vcf_result EXCEPT !.meta = Append(@, line)])
             ELSE IF StartsWith(line, VCF_HEADERS[1])
             THEN ReadLines(lines, j + 1, h,
                            [vcf_result EXCEPT !.head = fields, !.tuple = FALSE])
             ELSE IF Len(fields) < 5 THEN Outcome(h, "IndexError", vcf_result)
             ELSE ReadLines(lines, j + 1, Append(h, fields),
                            [vcf_result EXCEPT
                                !.data = Put(@, RecordKey(fields), Len(h) + 1)])

read(h, lines) == ReadLines(lines, 1, h, NewStore)

\* the place of the first end of line from place i on, the end of the text when
\* there is none
LineEnd(text, i) ==
    IF \E j \in i..Len(text) : text[j] = "\n"
    THEN CHOOSE j \in i..Len(text) :
            text[j] = "\n" /\ \A k \in i..(j - 1) : text[k] # "\n"
    ELSE Len(text)

\* `for line in f`: the text of a file cut after every end of line
RECURSIVE LinesFrom(_, _)
LinesFrom(text, i) ==
    IF i > Len(text) THEN <<>>
    ELSE <<SubSeq(text, i, LineEnd(text, i))>> \o LinesFrom(text, LineEnd(text, i) + 1)

SplitLines(text) == LinesFrom(text, 1)

(***************************************************************************)
(* write: the text of the file.                                            *)
(***************************************************************************)
\* ''.join(parts)
RECURSIVE Concat(_)
Concat(parts) == IF Len(parts) = 0 THEN <<>> ELSE Head(parts) \o Concat(Tail(parts))

\* for record, fields in self.data.items(): f.write('\t'.join(fields) + '\n')
RECURSIVE WriteRecords(_, _, _)
WriteRecords(h, data, j) ==
    IF j > Len(data) THEN <<>>
    ELSE Join(h[data[j].ref], "\t") \o <<"\n">> \o WriteRecords(h, data, j + 1)

write(h, self) ==
    Concat(self.meta) \o Join(self.head, "\t") \o <<"\n">> \o WriteRecords(h, self.data, 1)

(***************************************************************************)
(* The files the two stores are read from.                                 *)
(***************************************************************************)
\* one line of a file: the tab-joined fields and the end of line
Line(fields) == Join(fields, "\t") \o <<"\n">>

\* ##fileformat=VCF
MetaLine == <<"#", "#", "f", "i", "l", "e", "f", "o", "r", "m", "a", "t", "=", "V", "C", "F", "\n">>

S1 == <<"S", "1">>
S2 == <<"S", "2">>
S3 == <<"S", "3">>
S4 == <<"S", "4">>

\* chr1 100 . G C . . . GT:AD 0/1:10,5
RowA100 ==
    << <<"c", "h", "r", "1">>, <<"1", "0", "0">>, <<".">>, <<"G">>, <<"C">>, 
       <<".">>, <<".">>, <<".">>, <<"G", "T", ":", "A", "D">>, 
       <<"0", "/", "1", ":", "1", "0", ",", "5">> >>

\* chr1 200 rs2 A T 50 PASS DP=9 AD:GT 3,.:0/.
RowA200 ==
    << <<"c", "h", "r", "1">>, <<"2", "0", "0">>, <<"r", "s", "2">>, 
       <<"A">>, <<"T">>, <<"5", "0">>, <<"P", "A", "S", "S">>, 
       <<"D", "P", "=", "9">>, <<"A", "D", ":", "G", "T">>, 
       <<"3", ",", ".", ":", "0", "/", ".">> >>

\* chr1 100 rs1 G C 50 PASS DP=9 GT:AD:DP:AF 0/1:10,5:15:0.33 0/1:4,4:8:0.5
RowF100 ==
    << <<"c", "h", "r", "1">>, <<"1", "0", "0">>, <<"r", "s", "1">>, 
       <<"G">>, <<"C">>, <<"5", "0">>, <<"P", "A", "S", "S">>, 
       <<"D", "P", "=", "9">>, 
       <<"G", "T", ":", "A", "D", ":", "D", "P", ":", "A", "F">>, 
       <<"0", "/", "1", ":", "1", "0", ",", "5", ":", "1", "5", ":", "0", ".", "3", "3">>, 
       <<"0", "/", "1", ":", "4", ",", "4", ":", "8", ":", "0", ".", "5">> >>

\* chr1 200 . A T . . . GT:AD:DP:AF ./.:.:.:. 0/.:3,.:.:0.05
RowF200 ==
    << <<"c", "h", "r", "1">>, <<"2", "0", "0">>, <<".">>, <<"A">>, <<"T">>, 
       <<".">>, <<".">>, <<".">>, 
       <<"G", "T", ":", "A", "D", ":", "D", "P", ":", "A", "F">>, 
       <<".", "/", ".", ":", ".", ":", ".", ":", ".">>, 
       <<"0", "/", ".", ":", "3", ",", ".", ":", ".", ":", "0", ".", "0", "5">> >>

\* chr1 100 . G C . . . GT:AD 0/0:20,0
RowB100 ==
    << <<"c", "h", "r", "1">>, <<"1", "0", "0">>, <<".">>, <<"G">>, <<"C">>, 
       <<".">>, <<".">>, <<".">>, <<"G", "T", ":", "A", "D">>, 
       <<"0", "/", "0", ":", "2", "0", ",", "0">> >>

\* chr1 300 . T G 7 q10 . GT:AD:DP:AF 1/1:0,9:9:1 ./.:2,2:4:0.5
RowG300 ==
    << <<"c", "h", "r", "1">>, <<"3", "0", "0">>, <<".">>, <<"T">>, <<"G">>, 
       <<"7">>, <<"q", "1", "0">>, <<".">>, 
       <<"G", "T", ":", "A", "D", ":", "D", "P", ":", "A", "F">>, 
       <<"1", "/", "1", ":", "0", ",", "9", ":", "9", ":", "1">>, 
       <<".", "/", ".", ":", "2", ",", "2", ":", "4", ":", "0", ".", "5">> >>

\* chr1 100 rs7 G C 9 PASS . GT:AD:DP:AF 0/0:9,0:9:0.0 0/1:20,20:40:0.5
RowG100 ==
    << <<"c", "h", "r", "1">>, <<"1", "0", "0">>, <<"r", "s", "7">>, 
       <<"G">>, <<"C">>, <<"9">>, <<"P", "A", "S", "S">>, <<".">>, 
       <<"G", "T", ":", "A", "D", ":", "D", "P", ":", "A", "F">>, 
       <<"0", "/", "0", ":", "9", ",", "0", ":", "9", ":", "0", ".", "0">>, 
       <<"0", "/", "1", ":", "2", "0", ",", "2", "0", ":", "4", "0", ":", "0", ".", "5">> >>

\* chr1 100 rs9 G C 99 PASS X=1 GT:AD
RowN100 ==
    << <<"c", "h", "r", "1">>, <<"1", "0", "0">>, <<"r", "s", "9">>, 
       <<"G">>, <<"C">>, <<"9", "9">>, <<"P", "A", "S", "S">>, 
       <<"X", "=", "1">>, <<"G", "T", ":", "A", "D">> >>

\* chr1 100 rs5 G C 30 PASS . GT:AD:DP 1/1:0,7:7 0/0:3,0:3
RowD100x ==
    << <<"c", "h", "r", "1">>, <<"1", "0", "0">>, <<"r", "s", "5">>, <<"G">>, <<"C">>,
       <<"3", "0">>, <<"P", "A", "S", "S">>, <<".">>,
       <<"G", "T", ":", "A", "D", ":", "D", "P">>,
       <<"1", "/", "1", ":", "0", ",", "7", ":", "7">>,
       <<"0", "/", "0", ":", "3", ",", "0", ":", "3">> >>

\* chr1 100 . G C . . . GT:AD:DP 0/1:10,5:15 0/1:4,4:8
RowD100 ==
    << <<"c", "h", "r", "1">>, <<"1", "0", "0">>, <<".">>, <<"G">>, <<"C">>, <<".">>,
       <<".">>, <<".">>, <<"G", "T", ":", "A", "D", ":", "D", "P">>,
       <<"0", "/", "1", ":", "1", "0", ",", "5", ":", "1", "5">>,
       <<"0", "/", "1", ":", "4", ",", "4", ":", "8">> >>

\* chr1 400 . C A . . . GT 1/1 ./.
RowT400 ==
    << <<"c", "h", "r", "1">>, <<"4", "0", "0">>, <<".">>, <<"C">>, <<"A">>, <<".">>,
       <<".">>, <<".">>, <<"G", "T">>, <<"1", "/", "1">>, <<".", "/", ".">> >>

\* chr1 500 . T C . . . GT ./. ./.
RowE500 ==
    << <<"c", "h", "r", "1">>, <<"5", "0", "0">>, <<".">>, <<"T">>, <<"C">>, <<".">>,
       <<".">>, <<".">>, <<"G", "T">>, <<".", "/", ".">>, <<".", "/", ".">> >>

\* the files of the first store: the one-record example, two records of
\* different FORMAT layouts, two samples with every subfield, no record, two
\* lines of the same key
FilesA ==
    { << Line(VCF_HEADERS \o <<S1>>), Line(RowA100) >>,
      << MetaLine, Line(VCF_HEADERS \o <<S1>>), Line(RowA200), Line(RowA100) >>,
      << MetaLine, Line(VCF_HEADERS \o <<S1, S3>>), Line(RowF100), Line(RowF200) >>,
      << Line(VCF_HEADERS \o <<S1>>) >>,
      << Line(VCF_HEADERS \o <<S1, S3>>), Line(RowD100x), Line(RowD100) >> }

\* the files of the second store: the one-record example, two samples with
\* every subfield, no record, no sample column, records of GT alone after a
\* record of every subfield
FilesB ==
    { << Line(VCF_HEADERS \o <<S2>>), Line(RowB100) >>,
      << MetaLine, Line(VCF_HEADERS \o <<S2, S4>>), Line(RowG300), Line(RowG100) >>,
      << Line(VCF_HEADERS \o <<S2>>) >>,
      << Line(VCF_HEADERS), Line(RowN100) >>,
      << Line(VCF_HEADERS \o <<S2, S4>>), Line(RowG300), Line(RowT400), Line(RowE500) >> }

\* chr1 600 . A G . . . GT
RowS600 ==
    << <<"c", "h", "r", "1">>, <<"6", "0", "0">>, <<".">>, <<"A">>, <<"G">>, <<".">>,
       <<".">>, <<".">>, <<"G", "T">> >>

\* ##tail, the end of line left out
TailLine == <<"#", "#", "t", "a", "i", "l">>

\* files that are not what a writer of variant files writes: an empty line
\* among the records, a record without its sample cell, a line of three
\* fields, a metadata line without end of line at the end of the file
OddFiles ==
    { << Line(VCF_HEADERS \o <<S1>>), <<"\n">>, Line(RowA100) >>,
      << Line(VCF_HEADERS \o <<S1>>), Line(RowA100), Line(RowS600) >>,
      << Line(VCF_HEADERS \o <<S1>>), Line(Prefix(RowS600, 3)) >>,
      << Line(VCF_HEADERS \o <<S1>>), Line(RowA100), TailLine >> }

\* the files a caller of read passes
ReadFiles == FilesA \cup FilesB \cup OddFiles

(***************************************************************************)
(* The arguments the callers pass.                                         *)
(***************************************************************************)
SubfieldArgs == { <<>>, <<AD>>, <<DP, AD>>, <<GT>> }

\* 15 is the depth of a sample of the records
DpThresholds == { 12, 15 }

\* 0.1 and 0.5
AfThresholds == { 100, 500 }

\* ID and FORMAT; QUAL and POS; FILTER and a sample's name
NameArgs ==
    { <<VCF_HEADERS[3], VCF_HEADERS[9]>>, <<VCF_HEADERS[6], VCF_HEADERS[2]>>,
      <<VCF_HEADERS[7], S1>> }

\* the nine elements of VCF_HEADERS, and CHROM, which is none of them
CHROM == <<"C", "H", "R", "O", "M">>

ApplyNames == { VCF_HEADERS[k] : k \in 1..Len(VCF_HEADERS) } \cup { CHROM }

ApplyFuncs == { "dot", "tag" }

\* the fields a client assigns to (POS), and the value
SetIndexes == { 1 }
SetValue == <<"7">>

(***************************************************************************)
(* The state machine.                                                      *)
(***************************************************************************)
NoCall ==
    [op |-> "read", self |-> 0, other |-> 0, subfields |-> <<>>, threshold |-> 0,
     names |-> <<>>, name |-> <<>>, func |-> "", key |-> <<>>, lines |-> <<>>,
     again |-> FALSE]

\* no file was written
NoDisk == [text |-> <<>>, by |-> 0]

Init ==
    \E fa \in FilesA, fb \in FilesB :
        LET ra == read(<<>>, fa)
            rb == read(ra.heap, fb)
        IN  /\ ra.err = "none" /\ rb.err = "none"
            /\ stores = <<ra.store, rb.store>>
            /\ heap = rb.heap
            /\ last = [call |-> NoCall, err |-> "none", result |-> 0, pre |-> rb.heap]
            /\ origin = <<NoCall, NoCall>>
            /\ ncalls = 0
            /\ nsets = 0
            /\ files = <<fa, fb>>
            /\ disk = NoDisk

\* a call of a transform: the heap is left as the call left it, and a call that
\* returns adds the returned store
Return(call, out) ==
    /\ ncalls < MaxCalls
    /\ ncalls' = ncalls + 1
    /\ heap' = out.heap
    /\ stores' = IF out.err = "none" THEN Append(stores, out.store) ELSE stores
    /\ origin' = IF out.err = "none" THEN Append(origin, call) ELSE origin
    /\ last' = [call |-> call, err |-> out.err, pre |-> heap,
                result |-> IF out.err = "none" THEN Len(stores) + 1 ELSE 0]
    /\ UNCHANGED <<nsets, files, disk>>

StoreIds == 1..Len(stores)

DoStrip ==
    \E s \in StoreIds, sub \in SubfieldArgs :
        LET call == [NoCall EXCEPT !.op = "strip", !.self = s, !.subfields = sub]
        IN  Return(call, strip(heap, stores[s], sub))

DoMerge ==
    \E a \in StoreIds, b \in StoreIds, sub \in SubfieldArgs :
        LET call == [NoCall EXCEPT !.op = "merge", !.self = a, !.other = b,
                                   !.subfields = sub]
        IN  Return(call, merge(heap, stores[a], stores[b], sub))

DoAddDp ==
    \E s \in StoreIds :
        LET call == [NoCall EXCEPT !.op = "add_dp", !.self = s]
        IN  Return(call, add_dp(heap, stores[s]))

DoFilterDp ==
    \E s \in StoreIds, t \in DpThresholds :
        LET call == [NoCall EXCEPT !.op = "filter_dp", !.self = s, !.threshold = t]
        IN  Return(call, filter_dp(heap, stores[s], t))

DoFilterAf ==
    \E s \in StoreIds, t \in AfThresholds :
        LET call == [NoCall EXCEPT !.op = "filter_af", !.self = s, !.threshold = t]
        IN  Return(call, filter_af(heap, stores[s], t))

DoRemoveEmpty ==
    \E s \in StoreIds :
        LET call == [NoCall EXCEPT !.op = "remove_empty", !.self = s]
        IN  Return(call, remove_empty(heap, stores[s]))

DoUpdate ==
    \E a \in StoreIds, b \in StoreIds, names \in NameArgs :
        LET call == [NoCall EXCEPT !.op = "update", !.self = a, !.other = b,
                                   !.names = names]
        IN  Return(call, update(heap, stores[a], stores[b], names))

DoApply ==
    \E s \in StoreIds, name \in ApplyNames, func \in ApplyFuncs :
        LET call == [NoCall EXCEPT !.op = "apply", !.self = s, !.name = name,
                                   !.func = func]
        IN  Return(call, apply(heap, stores[s], name, func))

\* a client's store.data[record][i] = SetValue
DoSetField ==
    \E s \in StoreIds, i \in SetIndexes :
      \E j \in 1..Len(stores[s].data) :
        /\ nsets < MaxSets
        /\ i < Len(heap[stores[s].data[j].ref])
        /\ nsets' = nsets + 1
        /\ heap' = [heap EXCEPT ![stores[s].data[j].ref] = SetAt(@, i, SetValue)]
        /\ last' = [call |-> [NoCall EXCEPT !.op = "setfield", !.self = s,
                                            !.key = stores[s].data[j].key],
                    err |-> "none", result |-> 0, pre |-> heap]
        /\ UNCHANGED <<stores, origin, ncalls, files, disk>>

Next ==
    \/ DoStrip
    \/ DoMerge
    \/ DoAddDp
    \/ DoFilterDp
    \/ DoFilterAf
    \/ DoRemoveEmpty
    \/ DoUpdate
    \/ DoApply

\* the transforms alone
Spec == Init /\ [][Next]_vars

\* the transforms, and a client that assigns to fields of the stores' records
NextOwn ==
    \/ Next
    \/ DoSetField

SpecOwn == Init /\ [][NextOwn]_vars

\* the transforms that rewrite or select sample cells: all but update and apply
NextCells ==
    \/ DoStrip
    \/ DoMerge
    \/ DoAddDp
    \/ DoFilterDp
    \/ DoFilterAf
    \/ DoRemoveEmpty

SpecCells == Init /\ [][NextCells]_vars

(***************************************************************************)
(* Reading and writing files.                                              *)
(***************************************************************************)
\* before any file is read
InitFile ==
    /\ stores = <<>>
    /\ heap = <<>>
    /\ last = [call |-> NoCall, err |-> "none", result |-> 0, pre |-> <<>>]
    /\ origin = <<>>
    /\ ncalls = 0
    /\ nsets = 0
    /\ files = <<>>
    /\ disk = NoDisk

\* VCFResult.read(path): a read that raises returns no store, and the lists it
\* made are garbage
ReadReturn(call, out) ==
    /\ ncalls < MaxReads
    /\ ncalls' = ncalls + 1
    /\ heap' = IF out.err = "none" THEN out.heap ELSE heap
    /\ stores' = IF out.err = "none" THEN Append(stores, out.store) ELSE stores
    /\ origin' = IF out.err = "none" THEN Append(origin, call) ELSE origin
    /\ files' = IF out.err = "none" THEN Append(files, call.lines) ELSE files
    /\ last' = [call |-> call, err |-> out.err, pre |-> heap,
                result |-> IF out.err = "none" THEN Len(stores) + 1 ELSE 0]
    /\ UNCHANGED <<nsets, disk>>

\* read of a file the caller has
DoRead ==
    /\ ncalls < MaxReads
    /\ \E lines \in ReadFiles :
          LET call == [NoCall EXCEPT !.lines = lines]
          IN  ReadReturn(call, read(heap, lines))

\* read of the file written last; self is the store it was written from
DoReadBack ==
    /\ disk.by # 0
    /\ LET lines == SplitLines(disk.text)
           call  == [NoCall EXCEPT !.lines = lines, !.self = disk.by]
       IN  ReadReturn(call, read(heap, lines))

\* store.write(path)
DoWrite ==
    \E s \in StoreIds :
        /\ disk' = [text |-> write(heap, stores[s]), by |-> s]
        /\ disk' # disk
        /\ UNCHANGED <<stores, heap, last, origin, ncalls, nsets, files>>

NextFile ==
    \/ DoRead
    \/ DoReadBack
    \/ DoWrite

SpecFile == InitFile /\ [][NextFile]_vars

\* result.write(vcf_path): the store the latest call returned is written
DoWriteResult ==
    /\ last.result # 0
    /\ disk' = [text |-> write(heap, stores[last.result]), by |-> last.result]
    /\ disk' # disk
    /\ UNCHANGED <<stores, heap, last, origin, ncalls, nsets, files>>

\* the transforms, and the writing of the stores they return
NextWrite ==
    \/ Next
    \/ DoWriteResult

SpecWrite == Init /\ [][NextWrite]_vars

\* the transform of a call, of the stores and with the arguments of the call
Again(h, ss, call) ==
    CASE call.op = "strip"        -> strip(h, ss[call.self], call.subfields)
      [] call.op = "merge"        -> merge(h, ss[call.self], ss[call.other], call.subfields)
      [] call.op = "add_dp"       -> add_dp(h, ss[call.self])
      [] call.op = "filter_dp"    -> filter_dp(h, ss[call.self], call.threshold)
      [] call.op = "filter_af"    -> filter_af(h, ss[call.self], call.threshold)
      [] call.op = "remove_empty" -> remove_empty(h, ss[call.self])
      [] call.op = "update"       -> update(h, ss[call.self], ss[call.other], call.names)
      [] call.op = "apply"        -> apply(h, ss[call.self], call.name, call.func)

\* a client makes the call that has just returned a second time
DoAgain ==
    /\ ncalls > 0
    /\ last.call.op \notin {"read", "setfield"}
    /\ ~last.call.again
    /\ last.err = "none"
    /\ LET call == [last.call EXCEPT !.again = TRUE]
           out  == Again(heap, stores, call)
       IN  /\ heap' = out.heap
           /\ stores' = IF out.err = "none" THEN Append(stores, out.store) ELSE stores
           /\ origin' = IF out.err = "none" THEN Append(origin, call) ELSE origin
           /\ last' = [call |-> call, err |-> out.err, pre |-> heap,
                       result |-> IF out.err = "none" THEN Len(stores) + 1 ELSE 0]
    /\ UNCHANGED <<ncalls, nsets, files, disk>>

\* the transforms, and a client that repeats a call
NextTwice ==
    \/ Next
    \/ DoAgain

SpecTwice == Init /\ [][NextTwice]_vars

(***************************************************************************)
(* The latest call, its stores and the records before and after it.        *)
(***************************************************************************)
Called(op)   == last.call.op = op
Returned(op) == last.call.op = op /\ last.err = "none"

Self   == stores[last.call.self]
Other  == stores[last.call.other]
Result == stores[last.result]

\* the fields of a store's record when the latest call began, and now
Before(store, key) == last.pre[Get(store.data, key)]
Now(store, key)    == heap[Get(store.data, key)]

KeySet(store) == { store.data[j].key : j \in 1..Len(store.data) }

\* every record of the store has as many fields as the store's header
WidthOk(h, store) ==
    \A j \in 1..Len(store.data) : Len(h[store.data[j].ref]) = Len(store.head)

\* './.' followed by k - 1 times '.', joined by colons
MissingTemplate(k) == Join(<< <<".", "/", ".">> >> \o Repeat(Dot, k - 1), ":")

\* chr1 100 . G C . . . GT 0/1 0/0
RowMerged100 ==
    << <<"c", "h", "r", "1">>, <<"1", "0", "0">>, <<".">>, <<"G">>, <<"C">>, <<".">>,
       <<".">>, <<".">>, <<"G", "T">>, <<"0", "/", "1">>, <<"0", "/", "0">> >>

(***************************************************************************)
(* C1.  A merge of two stores whose records are as wide as their headers   *)
(* returns a store whose header is the first store's header followed by    *)
(* the second store's sample columns, and whose records all have           *)
(* 9 + m + n fields, m and n being the two stores' sample counts.          *)
(***************************************************************************)
MergeColumnCount ==
    (Returned("merge") /\ WidthOk(last.pre, Self) /\ WidthOk(last.pre, Other)) =>
        /\ Result.head = Self.head \o Slice(Other.head, 9)
        /\ \A j \in 1..Len(Result.data) :
              Len(heap[Result.data[j].ref]) = 9 + Shape0(Self) + Shape0(Other)

\* a merge of a one-sample store and a two-sample store that returns a record
\* of both stores, one of the first only and one of the second only
MergeColumnCountWitness ==
    /\ Returned("merge") /\ WidthOk(last.pre, Self) /\ WidthOk(last.pre, Other)
    /\ Shape0(Self) = 1 /\ Shape0(Other) = 2
    /\ Len(Result.data) = 3

(***************************************************************************)
(* C3.  Under a key of both stores, the merged record is the first store's *)
(* stripped record followed by the second store's stripped sample cells;   *)
(* the one-record example of the two stores S1 and S2 merged on GT gives   *)
(* chr1 100 . G C . . . GT 0/1 0/0 under the sample columns S1 S2.         *)
(***************************************************************************)
MergeSharedKey ==
    Returned("merge") =>
        \A key \in KeySet(Self) \cap KeySet(Other) :
            /\ Now(Result, key) =
                  StripFields(Before(Self, key), last.call.subfields).val
                  \o Slice(StripFields(Before(Other, key), last.call.subfields).val, 9)
            /\ ( /\ Before(Self, key) = RowA100
                 /\ Before(Other, key) = RowB100
                 /\ Self.head = VCF_HEADERS \o <<S1>>
                 /\ Other.head = VCF_HEADERS \o <<S2>>
                 /\ last.call.subfields = <<>> )
               => /\ Now(Result, key) = RowMerged100
                  /\ Slice(Result.head, 9) = <<S1, S2>>

\* the example's two stores merged on GT
MergeSharedKeyWitness ==
    /\ Returned("merge") /\ last.call.subfields = <<>>
    /\ Len(Self.data) = 1 /\ Len(Other.data) = 1
    /\ Before(Self, Self.data[1].key) = RowA100
    /\ Before(Other, Other.data[1].key) = RowB100
    /\ Self.data[1].key = Other.data[1].key

(***************************************************************************)
(* C4.  Under a key of the first store only, the merged record is the      *)
(* first store's stripped record followed by one missing-genotype template *)
(* for each sample of the second store; the template has as many subfields *)
(* as the stripped FORMAT: one more than the requested subfields.          *)
(***************************************************************************)
MergeFirstOnly ==
    Returned("merge") =>
        \A key \in KeySet(Self) \ KeySet(Other) :
            Now(Result, key) =
                StripFields(Before(Self, key), last.call.subfields).val
                \o Repeat(MissingTemplate(1 + Len(last.call.subfields)), Shape0(Other))

\* a merge on two requested subfields whose first store has a record of its
\* own and whose second store has two samples
MergeFirstOnlyWitness ==
    /\ Returned("merge") /\ Len(last.call.subfields) = 2
    /\ KeySet(Self) \ KeySet(Other) # {}
    /\ Shape0(Other) = 2

(***************************************************************************)
(* C5.  Under a key of the second store only, the merged record is the     *)
(* second store's nine stripped fixed fields, one missing-genotype         *)
(* template for each sample of the first store, then the second store's    *)
(* stripped sample cells.                                                  *)
(***************************************************************************)
MergeSecondOnly ==
    Returned("merge") =>
        \A key \in KeySet(Other) \ KeySet(Self) :
            LET stripped == StripFields(Before(Other, key), last.call.subfields).val
            IN  Now(Result, key) =
                    Prefix(stripped, 9)
                    \o Repeat(MissingTemplate(1 + Len(last.call.subfields)), Shape0(Self))
                    \o Slice(stripped, 9)

\* a merge whose second store has a record of its own with two sample cells
\* and whose first store has a sample
MergeSecondOnlyWitness ==
    /\ Returned("merge")
    /\ KeySet(Other) \ KeySet(Self) # {}
    /\ Shape0(Self) >= 1 /\ Shape0(Other) = 2

(***************************************************************************)
(* C6.  The keys of a merge come in this order: the first store's keys in  *)
(* the first store's order, then the keys of the second store only, in the *)
(* second store's order.                                                   *)
(***************************************************************************)
NotInSelf(key) == ~Has(Self.data, key)

MergeOrder ==
    Returned("merge") =>
        Keys(Result.data) = Keys(Self.data) \o SelectSeq(Keys(Other.data), NotInSelf)

\* a merge of two records with a store that shares the second of them and has
\* its own record first
MergeOrderWitness ==
    /\ Returned("merge")
    /\ Len(Self.data) = 2 /\ Len(Other.data) = 2
    /\ Self.data[2].key = Other.data[2].key
    /\ ~Has(Self.data, Other.data[1].key)

(***************************************************************************)
(* C2.  A merge of two different stores whose records all declare the      *)
(* requested subfields completes, also when one of the stores has no       *)
(* record, and the keys of its result are the keys of the first store and  *)
(* the keys of the second store, each of them once.                        *)
(***************************************************************************)
\* every record's FORMAT names GT and every requested subfield
Declares(h, store, subfields) ==
    \A j \in 1..Len(store.data) :
        LET fields == h[store.data[j].ref]
        IN  /\ Len(fields) > 8
            /\ \A k \in 1..Len(<<GT>> \o subfields) :
                  Index(Split(At(fields, 8), ":"), (<<GT>> \o subfields)[k]) >= 0

MergeCompleteness ==
    ( /\ Called("merge")
      /\ last.call.self # last.call.other
      /\ Declares(last.pre, Self, last.call.subfields)
      /\ Declares(last.pre, Other, last.call.subfields) ) =>
        /\ last.err = "none"
        /\ KeySet(Result) = KeySet(Self) \cup KeySet(Other)
        /\ Cardinality(KeySet(Result)) = Len(Result.data)

(***************************************************************************)
(* C7.  Every record of every store, the stores passed to a transform and  *)
(* the stores returned by one, has as many fields as its store's header.   *)
(***************************************************************************)
RecordWidth == \A s \in StoreIds : WidthOk(heap, stores[s])

(***************************************************************************)
(* C8.  A transform that returns a store leaves the records of the stores  *)
(* it was called on as they were when the call began.                      *)
(***************************************************************************)
Transforms ==
    { "strip", "merge", "add_dp", "filter_dp", "filter_af", "remove_empty",
      "update", "apply" }

Unchanged(store) == \A key \in KeySet(store) : Now(store, key) = Before(store, key)

InputsUnchanged ==
    (last.call.op \in Transforms /\ last.err = "none") =>
        /\ Unchanged(Self)
        /\ last.call.op \in {"merge", "update"} => Unchanged(Other)

(***************************************************************************)
(* C9.  The store returned by strip, add_dp, filter_dp, filter_af,         *)
(* remove_empty or update owns its records: an assignment to a field of a  *)
(* record of the returned store changes no record of the store the         *)
(* transform was called on, and an assignment to a field of a record of    *)
(* that store changes no record of the returned store.  (Checked under     *)
(* SpecOwn, the specification with the client's assignments.)              *)
(***************************************************************************)
Projections ==
    { "strip", "add_dp", "filter_dp", "filter_af", "remove_empty", "update" }

\* store s was returned by a projection called on store t
ReturnedFrom(s, t) == origin[s].op \in Projections /\ origin[s].self = t

OwnRecords ==
    Called("setfield") =>
        \A t \in StoreIds :
            ( /\ t # last.call.self
              /\ ReturnedFrom(last.call.self, t) \/ ReturnedFrom(t, last.call.self) )
            => \A j \in 1..Len(stores[t].data) :
                  heap[stores[t].data[j].ref] = last.pre[stores[t].data[j].ref]

(***************************************************************************)
(* C10.  In every record of a stripped store ID, QUAL, FILTER and INFO are *)
(* the missing token '.', and CHROM, POS, REF and ALT are what they were   *)
(* in the store strip was called on.                                       *)
(***************************************************************************)
StripBlanksFixed ==
    Returned("strip") =>
        \A key \in KeySet(Result) :
            LET fields == Now(Result, key)
                before == Before(Self, key)
            IN  /\ At(fields, 2) = Dot /\ At(fields, 5) = Dot
                /\ At(fields, 6) = Dot /\ At(fields, 7) = Dot
                /\ At(fields, 0) = At(before, 0) /\ At(fields, 1) = At(before, 1)
                /\ At(fields, 3) = At(before, 3) /\ At(fields, 4) = At(before, 4)

(***************************************************************************)
(* C11.  A strip that returns keeps the header, the keys and their order,  *)
(* and every record's number of fields; every record's FORMAT becomes GT   *)
(* and the requested subfields in the requested order, joined by colons,   *)
(* and every sample cell becomes the values of exactly those subfields in  *)
(* that order, each value found in the cell at the place its name has in   *)
(* that record's own FORMAT before the call.                               *)
(***************************************************************************)
\* the value of the subfield name in the cell x of a record of FORMAT format
ValueOf(format, x, name) == At(Split(x, ":"), Index(Split(format, ":"), name))

StripRewrites ==
    Returned("strip") =>
        /\ Result.head = Self.head
        /\ Keys(Result.data) = Keys(Self.data)
        /\ \A key \in KeySet(Self) :
              LET before == Before(Self, key)
                  fields == Now(Result, key)
                  wanted == <<GT>> \o last.call.subfields
              IN  /\ Len(fields) = Len(before)
                  /\ At(fields, 8) = Join(wanted, ":")
                  /\ \A c \in 9..(Len(before) - 1) :
                        Split(At(fields, c), ":") =
                            [k \in 1..Len(wanted) |->
                                ValueOf(At(before, 8), At(before, c), wanted[k])]

\* a strip to GT:AD of a store with a record of FORMAT GT:AD and a record of
\* FORMAT AD:GT
StripRewritesWitness ==
    /\ Returned("strip") /\ last.call.subfields = <<AD>>
    /\ \E k1 \in KeySet(Self), k2 \in KeySet(Self) :
          /\ At(Before(Self, k1), 8) = Join(<<GT, AD>>, ":")
          /\ At(Before(Self, k2), 8) = Join(<<AD, GT>>, ":")
          /\ Len(Before(Self, k1)) > 9 /\ Len(Before(Self, k2)) > 9

(***************************************************************************)
(* C12.  A call of strip, add_dp, filter_dp or filter_af on a store with a *)
(* record whose FORMAT does not name a subfield the call looks up (GT and  *)
(* the requested subfields for strip, AD for add_dp, DP for filter_dp, AF  *)
(* for filter_af) raises and returns no store, also when other records     *)
(* name the subfield; on a store whose cells follow their FORMAT the       *)
(* exception is the ValueError of list.index.                              *)
(***************************************************************************)
\* the record's FORMAT does not name the subfield
Lacks(fields, name) == Len(fields) > 8 /\ Index(Split(At(fields, 8), ":"), name) < 0

\* the subfields the latest call looks up in the FORMAT of every record
Required ==
    CASE last.call.op = "strip"     -> <<GT>> \o last.call.subfields
      [] last.call.op = "add_dp"    -> <<AD>>
      [] last.call.op = "filter_dp" -> <<DP>>
      [] last.call.op = "filter_af" -> <<AF>>
      [] OTHER                      -> <<>>

\* a record of the store lacks a subfield the latest call looks up
SomeLacks(store) ==
    \E j \in 1..Len(store.data), k \in 1..Len(Required) :
        Lacks(last.pre[store.data[j].ref], Required[k])

\* every record has its FORMAT, and every sample cell has as many values as
\* the record's FORMAT has names
LayoutOk(h, store) ==
    \A j \in 1..Len(store.data) :
        LET fields == h[store.data[j].ref]
        IN  /\ Len(fields) > 8
            /\ \A c \in 9..(Len(fields) - 1) :
                  Len(Split(At(fields, c), ":")) = Len(Split(At(fields, 8), ":"))

SubfieldNotFound ==
    ( /\ last.call.op \in {"strip", "add_dp", "filter_dp", "filter_af"}
      /\ SomeLacks(Self) ) =>
        /\ last.err # "none"
        /\ last.result = 0
        /\ LayoutOk(last.pre, Self) => last.err = "ValueError"

\* an add_dp that raised on a store with a record that names AD before a
\* record that does not
SubfieldNotFoundWitness ==
    /\ Called("add_dp") /\ last.err = "ValueError"
    /\ Len(Self.data) > 1
    /\ ~Lacks(last.pre[Self.data[1].ref], AD)
    /\ \E j \in 2..Len(Self.data) : Lacks(last.pre[Self.data[j].ref], AD)

(***************************************************************************)
(* C13.  An add_dp that returns appends ':DP' to the FORMAT of every       *)
(* record and one value to every sample cell: the decimal sum of the       *)
(* comma-separated components of the cell's AD when none of them is '.',   *)
(* and '.' when one is; the other fields and the cell's earlier values     *)
(* stay.  The cell 0/1:10,5 of a GT:AD record becomes 0/1:10,5:15 under    *)
(* GT:AD:DP.                                                               *)
(***************************************************************************)
\* the sum of a list of decimal numbers
RECURSIVE SumOf(_)
SumOf(numbers) ==
    IF Len(numbers) = 0 THEN 0 ELSE ParseInt(Head(numbers)) + SumOf(Tail(numbers))

\* the total depth of a cell: the sum of the components of its AD, '.' when a
\* component is missing
TotalDepth(format, x) ==
    LET ad == Split(ValueOf(format, x, AD), ",")
    IN  IF \E k \in 1..Len(ad) : ad[k] = Dot THEN Dot ELSE FormatInt(SumOf(ad))

\* 0/1:10,5 and 0/1:10,5:15
CellA100   == <<"0", "/", "1", ":", "1", "0", ",", "5">>
CellA100Dp == <<"0", "/", "1", ":", "1", "0", ",", "5", ":", "1", "5">>

AddDpAppends ==
    Returned("add_dp") =>
        /\ Keys(Result.data) = Keys(Self.data)
        /\ \A key \in KeySet(Self) :
              LET before == Before(Self, key)
                  fields == Now(Result, key)
              IN  /\ Len(fields) = Len(before)
                  /\ Prefix(fields, 8) = Prefix(before, 8)
                  /\ At(fields, 8) = At(before, 8) \o <<":", "D", "P">>
                  /\ \A c \in 9..(Len(before) - 1) :
                        /\ At(fields, c) =
                              At(before, c) \o <<":">> \o TotalDepth(At(before, 8), At(before, c))
                        /\ (At(before, 8) = Join(<<GT, AD>>, ":") /\ At(before, c) = CellA100)
                              => (At(fields, 8) = Join(<<GT, AD, DP>>, ":")
                                  /\ At(fields, c) = CellA100Dp)

\* an add_dp of a store with the cell 0/1:10,5 and a cell with a missing depth
AddDpAppendsWitness ==
    /\ Returned("add_dp")
    /\ \E k1 \in KeySet(Self), k2 \in KeySet(Self) :
          /\ At(Before(Self, k1), 8) = Join(<<GT, AD>>, ":")
          /\ At(Before(Self, k1), 9) = CellA100
          /\ Contains(ValueOf(At(Before(Self, k2), 8), At(Before(Self, k2), 9), AD), ".")

(***************************************************************************)
(* C14.  A filter_dp (filter_af) that returns, called with threshold T on  *)
(* a store whose cells follow their FORMAT, replaces a sample cell by      *)
(* './.' and one ':.' for each other subfield of the record's FORMAT       *)
(* exactly when the cell's DP (AF) is '.' or less than T, and leaves every *)
(* other cell, the FORMAT and the fixed columns as they were.  With        *)
(* threshold 12 under GT:AD:DP, 0/1:10,5:15 stays and 0/1:4,4:8 becomes    *)
(* ./.:.:.                                                                 *)
(***************************************************************************)
\* the value the latest filter compares is missing or below its threshold
Below(format, x) ==
    LET v == ValueOf(format, x, IF last.call.op = "filter_dp" THEN DP ELSE AF)
    IN  \/ v = Dot
        \/ IF last.call.op = "filter_dp"
           THEN ParseInt(v) < last.call.threshold
           ELSE ParseFloat(v) < last.call.threshold

\* 0/1:4,4:8 and ./.:.:.
CellD8       == <<"0", "/", "1", ":", "4", ",", "4", ":", "8">>
CellMissing3 == <<".", "/", ".", ":", ".", ":", ".">>

FilterBlanks ==
    ( /\ Returned("filter_dp") \/ Returned("filter_af")
      /\ LayoutOk(last.pre, Self) ) =>
        /\ Keys(Result.data) = Keys(Self.data)
        /\ \A key \in KeySet(Self) :
              LET before == Before(Self, key)
                  fields == Now(Result, key)
                  format == At(before, 8)
              IN  /\ Len(fields) = Len(before)
                  /\ Prefix(fields, 9) = Prefix(before, 9)
                  /\ \A c \in 9..(Len(before) - 1) :
                        /\ At(fields, c) =
                              IF Below(format, At(before, c))
                              THEN MissingTemplate(Len(Split(format, ":")))
                              ELSE At(before, c)
                        /\ ( /\ last.call.op = "filter_dp" /\ last.call.threshold = 12
                             /\ format = Join(<<GT, AD, DP>>, ":") ) =>
                              /\ At(before, c) = CellA100Dp => At(fields, c) = CellA100Dp
                              /\ At(before, c) = CellD8 => At(fields, c) = CellMissing3

\* the example: filter_dp(12) of the GT:AD:DP record with the depths 15 and 8
FilterBlanksWitness ==
    /\ Returned("filter_dp") /\ last.call.threshold = 12
    /\ \E key \in KeySet(Self) :
          /\ At(Before(Self, key), 8) = Join(<<GT, AD, DP>>, ":")
          /\ At(Before(Self, key), 9) = CellA100Dp
          /\ At(Before(Self, key), 10) = CellD8

(***************************************************************************)
(* C15.  A filter_dp or filter_af that returns never has more called       *)
(* sample cells (cells whose GT names an allele) in its result than the    *)
(* store had before the call, and a cell that is called in the result was  *)
(* called, with the same text, before the call.                            *)
(***************************************************************************)
\* the cell's GT has a character that is neither '.' nor a separator
IsCalled(format, x) ==
    /\ Index(Split(format, ":"), GT) >= 0
    /\ Index(Split(format, ":"), GT) < Len(Split(x, ":"))
    /\ \E i \in 1..Len(ValueOf(format, x, GT)) :
          ValueOf(format, x, GT)[i] \notin {".", "/", "|"}

\* the called cells of a store, each as <<record, column>>
CalledCells(h, store) ==
    UNION { { <<j, c>> : c \in { d \in 9..(Len(h[store.data[j].ref]) - 1) :
                                   IsCalled(At(h[store.data[j].ref], 8),
                                            At(h[store.data[j].ref], d)) } } :
            j \in 1..Len(store.data) }

FilterMonotone ==
    (Returned("filter_dp") \/ Returned("filter_af")) =>
        /\ Cardinality(CalledCells(heap, Result))
              <= Cardinality(CalledCells(last.pre, Self))
        /\ \A key \in KeySet(Result) :
              /\ Has(Self.data, key)
              /\ \A c \in 9..(Len(Now(Result, key)) - 1) :
                    IsCalled(At(Now(Result, key), 8), At(Now(Result, key), c)) =>
                        /\ c < Len(Before(Self, key))
                        /\ At(Now(Result, key), c) = At(Before(Self, key), c)
                        /\ IsCalled(At(Before(Self, key), 8), At(Before(Self, key), c))

\* a filter that blanked a called cell and kept another
FilterMonotoneWitness ==
    /\ Returned("filter_dp") \/ Returned("filter_af")
    /\ Cardinality(CalledCells(heap, Result)) > 0
    /\ Cardinality(CalledCells(heap, Result))
          < Cardinality(CalledCells(last.pre, Self))

EntirelyMissing(genotype) ==
    \A i \in 1..Len(genotype) : genotype[i] \in {".", "/", "|"}

\* the first subfield of every sample cell of the record is entirely missing
AllGenotypesMissing(fields) ==
    \A c \in 9..(Len(fields) - 1) :
        EntirelyMissing(At(Split(At(fields, c), ":"), 0))

KeptByRemoveEmpty(key) == ~AllGenotypesMissing(Before(Self, key))

RemoveEmptyExact ==
    Returned("remove_empty") =>
        /\ Keys(Result.data) = SelectSeq(Keys(Self.data), KeptByRemoveEmpty)
        /\ \A key \in KeySet(Result) :
              Has(Self.data, key) /\ Now(Result, key) = Before(Self, key)

(***************************************************************************)
(* C18.  update(other, names) raises nothing and returns the first store's *)
(* keys in their order, keys of other alone left out.  Under a key of both *)
(* stores the columns named in names that are among ID, QUAL, FILTER, INFO *)
(* and FORMAT are other's and every other field, the sample cells          *)
(* included, is the first store's; under a key of the first store alone    *)
(* the record is the first store's.  A name that is none of the five (POS, *)
(* a sample's name) changes nothing.                                       *)
(***************************************************************************)
\* ID, QUAL, FILTER, INFO, FORMAT
Whitelist == { VCF_HEADERS[3], VCF_HEADERS[6], VCF_HEADERS[7], VCF_HEADERS[8],
               VCF_HEADERS[9] }

\* the 0-based column i is one of the columns the latest update copies
Copies(i) ==
    /\ i < Len(VCF_HEADERS)
    /\ At(VCF_HEADERS, i) \in Whitelist
    /\ \E k \in 1..Len(last.call.names) : last.call.names[k] = At(VCF_HEADERS, i)

UpdateCopies ==
    Called("update") =>
        /\ last.err = "none"
        /\ Keys(Result.data) = Keys(Self.data)
        /\ \A key \in KeySet(Self) :
              /\ Len(Now(Result, key)) = Len(Before(Self, key))
              /\ \A i \in 0..(Len(Before(Self, key)) - 1) :
                    At(Now(Result, key), i) =
                        IF Has(Other.data, key) /\ Copies(i)
                        THEN At(Before(Other, key), i)
                        ELSE At(Before(Self, key), i)

\* an update by QUAL and POS between two stores that share a key under which
\* their QUAL differs, each with a key of its own
UpdateCopiesWitness ==
    /\ Returned("update")
    /\ last.call.names = <<VCF_HEADERS[6], VCF_HEADERS[2]>>
    /\ KeySet(Self) \ KeySet(Other) # {}
    /\ KeySet(Other) \ KeySet(Self) # {}
    /\ \E key \in KeySet(Self) \cap KeySet(Other) :
          /\ At(Before(Self, key), 5) # At(Before(Other, key), 5)
          /\ At(Now(Result, key), 5) = At(Before(Other, key), 5)

(***************************************************************************)
(* C19.  apply(name, f), called with one of the nine column names on a     *)
(* store whose records have the nine fixed columns, returns a store with   *)
(* the same keys in the same order in which every record's column `name`   *)
(* is f of its value before the call and every other field is as it was.   *)
(* ApplyEachName states it for the names CHROM, POS, ID, REF, ALT, QUAL,   *)
(* FILTER, INFO, FORMAT; ApplyEachHeader for the names of VCF_HEADERS,     *)
(* whose first is '#CHROM'.                                                *)
(***************************************************************************)
\* CHROM, POS, ID, REF, ALT, QUAL, FILTER, INFO, FORMAT
ColumnNames == <<CHROM>> \o Tail(VCF_HEADERS)

NineColumns(h, store) ==
    \A j \in 1..Len(store.data) : Len(h[store.data[j].ref]) >= 9

\* the latest apply returned the store's records with column i rewritten
Applied(i) ==
    /\ last.err = "none"
    /\ Keys(Result.data) = Keys(Self.data)
    /\ \A key \in KeySet(Self) :
          /\ Len(Now(Result, key)) = Len(Before(Self, key))
          /\ \A c \in 0..(Len(Before(Self, key)) - 1) :
                At(Now(Result, key), c) =
                    IF c = i THEN ApplyFunc(last.call.func, At(Before(Self, key), c))
                    ELSE At(Before(Self, key), c)

ApplyEachName ==
    ( /\ Called("apply") /\ NineColumns(last.pre, Self)
      /\ Index(ColumnNames, last.call.name) >= 0 ) =>
        Applied(Index(ColumnNames, last.call.name))

ApplyEachHeader ==
    ( /\ Called("apply") /\ NineColumns(last.pre, Self)
      /\ Index(VCF_HEADERS, last.call.name) >= 0 ) =>
        Applied(Index(VCF_HEADERS, last.call.name))

\* an apply of x + 'X' to '#CHROM' of a store with two records and two samples
ApplyEachHeaderWitness ==
    /\ Returned("apply") /\ last.call.name = VCF_HEADERS[1] /\ last.call.func = "tag"
    /\ Len(Self.data) = 2 /\ Shape0(Self) = 2
    /\ \A key \in KeySet(Self) :
          At(Now(Result, key), 0) = At(Before(Self, key), 0) \o <<"X">>

(***************************************************************************)
(* C20.  A parsed store never has two records of the same key: reading a   *)
(* file with several data lines of the same CHROM, POS, REF and ALT raises *)
(* nothing and leaves one record under 'CHROM:POS:REF:ALT', whose fields   *)
(* are those of the last of these lines.                                   *)
(***************************************************************************)
\* 'CHROM:POS:REF:ALT'
KeyOf(fields) ==
    At(fields, 0) \o <<":">> \o At(fields, 1) \o <<":">> \o At(fields, 3)
        \o <<":">> \o At(fields, 4)

IsDataLine(line) == line[1] # "#"

\* the tab-separated fields of the data lines of a file, the end of line left out
DataRows(lines) ==
    LET rows == SelectSeq(lines, IsDataLine)
    IN  [j \in 1..Len(rows) |-> Split(SubSeq(rows[j], 1, Len(rows[j]) - 1), "\t")]

\* the last row of the key
LastRow(rows, key) ==
    rows[CHOOSE j \in 1..Len(rows) :
            /\ KeyOf(rows[j]) = key
            /\ \A k \in (j + 1)..Len(rows) : KeyOf(rows[k]) # key]

ParseLastWins ==
    (ncalls = 0 /\ nsets = 0) =>
        \A s \in 1..2 :
            LET rows == DataRows(files[s])
            IN  /\ read(<<>>, files[s]).err = "none"
                /\ KeySet(stores[s]) = { KeyOf(rows[j]) : j \in 1..Len(rows) }
                /\ Len(stores[s].data) = Cardinality(KeySet(stores[s]))
                /\ \A key \in KeySet(stores[s]) :
                      heap[Get(stores[s].data, key)] = LastRow(rows, key)

\* the store read from a file of two lines of the same key and different
\* fields
ParseLastWinsWitness ==
    /\ ncalls = 0 /\ nsets = 0
    /\ Len(DataRows(files[1])) = 2
    /\ KeyOf(DataRows(files[1])[1]) = KeyOf(DataRows(files[1])[2])
    /\ DataRows(files[1])[1] # DataRows(files[1])[2]
    /\ Len(stores[1].data) = 1
    /\ heap[stores[1].data[1].ref] = DataRows(files[1])[2]

(***************************************************************************)
(* C21.  A read of a file with a data line of fewer tab-separated fields   *)
(* than the header line declares raises, and no store holds such a line    *)
(* as a record.  (Checked under SpecFile, the specification of read and    *)
(* write.)                                                                 *)
(***************************************************************************)
\* the tab-separated fields of a line, its end of line left out
RowOf(line) ==
    Split(IF line[Len(line)] = "\n" THEN SubSeq(line, 1, Len(line) - 1) ELSE line, "\t")

IsHeaderLine(line) == Len(line) >= 6 /\ SubSeq(line, 1, 6) = VCF_HEADERS[1]

\* the number of columns the header line of the file declares, nine when the
\* file has none
DeclaredWidth(lines) ==
    IF \E j \in 1..Len(lines) : IsHeaderLine(lines[j])
    THEN Len(RowOf(lines[CHOOSE j \in 1..Len(lines) : IsHeaderLine(lines[j])]))
    ELSE Len(VCF_HEADERS)

\* a data line of the file has fewer fields than its header declares
HasShortLine(lines) ==
    \E j \in 1..Len(lines) :
        IsDataLine(lines[j]) /\ Len(RowOf(lines[j])) < DeclaredWidth(lines)

MalformedLine ==
    /\ (Called("read") /\ HasShortLine(last.call.lines)) => last.err # "none"
    /\ \A s \in StoreIds :
          origin[s].op = "read" =>
              \A j \in 1..Len(stores[s].data) :
                  Len(heap[stores[s].data[j].ref]) >= DeclaredWidth(files[s])

(***************************************************************************)
(* C22.  read classifies every line of the file: the lines that start with *)
(* '##' are the metadata, verbatim and in the file's order; the line that  *)
(* starts with '#CHROM' is the header; an empty line gives no record and   *)
(* no error; every other line is a record under its CHROM:POS:REF:ALT.     *)
(* (Stated for files whose other lines have the five fields of a key, and  *)
(* checked under SpecFile.)                                                *)
(***************************************************************************)
IsMetaLine(line) == Len(line) >= 2 /\ SubSeq(line, 1, 2) = <<"#", "#">>

IsBlankLine(line) == \A i \in 1..Len(line) : IsSpace(line[i])

IsRecordLine(line) == ~IsMetaLine(line) /\ ~IsHeaderLine(line) /\ ~IsBlankLine(line)

\* the fields of the record lines of a file
RecordRows(lines) ==
    LET rows == SelectSeq(lines, IsRecordLine)
    IN  [j \in 1..Len(rows) |-> RowOf(rows[j])]

\* the header of a file: its last '#CHROM' line, the default without one
HeaderOf(lines) ==
    IF \E j \in 1..Len(lines) : IsHeaderLine(lines[j])
    THEN RowOf(lines[CHOOSE j \in 1..Len(lines) :
                        /\ IsHeaderLine(lines[j])
                        /\ \A k \in (j + 1)..Len(lines) : ~IsHeaderLine(lines[k])])
    ELSE VCF_HEADERS

ReadClassifies ==
    ( /\ Called("read") /\ ncalls > 0
      /\ \A j \in 1..Len(RecordRows(last.call.lines)) :
            Len(RecordRows(last.call.lines)[j]) >= 5 ) =>
        /\ last.err = "none"
        /\ Result.meta = SelectSeq(last.call.lines, IsMetaLine)
        /\ Result.head = HeaderOf(last.call.lines)
        /\ KeySet(Result) =
              { KeyOf(RecordRows(last.call.lines)[j]) :
                    j \in 1..Len(RecordRows(last.call.lines)) }
        /\ \A key \in KeySet(Result) :
              Now(Result, key) = LastRow(RecordRows(last.call.lines), key)

(***************************************************************************)
(* C23.  Round trip: a store parsed from text, written, read back and      *)
(* written again gives the text of the first write, byte for byte.  Store  *)
(* s below was read back from the text written from store origin[s].self,  *)
(* files[s] holds the lines of that text, and disk.text is what write      *)
(* makes of s.  (Checked under SpecFile.)                                  *)
(***************************************************************************)
ReadBack(s) == origin[s].op = "read" /\ origin[s].self # 0

RoundTrip ==
    \A s \in StoreIds :
        (ReadBack(s) /\ disk.by = s) => disk.text = Concat(files[s])

(***************************************************************************)
(* C24.  A transform is a function of its store(s) and arguments alone:    *)
(* the same call made twice in succession returns both times, and the two  *)
(* returned stores have the same header, the same keys in the same order   *)
(* and the same fields in every record.  The first store is compared as it *)
(* was returned, before the second call.  (Checked under SpecTwice.)       *)
(***************************************************************************)
Repeated == last.call.again

First == stores[Len(stores) - 1]

SameCallSameResult ==
    Repeated =>
        /\ last.err = "none"
        /\ Result.head = First.head
        /\ Keys(Result.data) = Keys(First.data)
        /\ \A key \in KeySet(Result) : Now(Result, key) = Before(First, key)

(***************************************************************************)
(* C25.  When a merge returns, every record of the two stores it stripped  *)
(* and every record of its result declares the same FORMAT, GT followed by *)
(* the requested subfields, and every sample cell of the result, the       *)
(* missing-genotype templates among them, has one value for each of these  *)
(* names.                                                                  *)
(***************************************************************************)
StrippedFormat == Join(<<GT>> \o last.call.subfields, ":")

\* every record of the store declares the FORMAT
AllDeclare(h, store, format) ==
    \A j \in 1..Len(store.data) : At(h[store.data[j].ref], 8) = format

\* every sample cell of the store has n values
CellsOf(h, store, n) ==
    \A j \in 1..Len(store.data) :
        \A i \in 10..Len(h[store.data[j].ref]) :
            Len(Split(h[store.data[j].ref][i], ":")) = n

MergeSameLayout ==
    Returned("merge") =>
        /\ AllDeclare(heap, Self, StrippedFormat)
        /\ AllDeclare(heap, Other, StrippedFormat)
        /\ AllDeclare(heap, Result, StrippedFormat)
        /\ CellsOf(heap, Result, 1 + Len(last.call.subfields))

\* a merge on two requested subfields of stores that declared more, whose
\* result holds templates for the samples of either store
MergeSameLayoutWitness ==
    /\ Returned("merge") /\ Len(last.call.subfields) = 2
    /\ KeySet(Self) \ KeySet(Other) # {}
    /\ KeySet(Other) \ KeySet(Self) # {}
    /\ Shape0(Self) >= 1 /\ Shape0(Other) >= 1
    /\ \E key \in KeySet(Other) : At(Before(Other, key), 8) # StrippedFormat
    /\ \E key \in KeySet(Result) :
          \E i \in 10..Len(Now(Result, key)) : Now(Result, key)[i] = MissingTemplate(3)

(***************************************************************************)
(* C26.  strip keeps GT once, as the first subfield, whatever list is      *)
(* requested, a list that names GT included: the FORMAT of every record of *)
(* the returned store starts with GT and names no subfield twice, and      *)
(* every sample cell has one value for each name.                          *)
(***************************************************************************)
NoNameTwice(names) ==
    \A i, j \in 1..Len(names) : names[i] = names[j] => i = j

StripKeepsGtOnce ==
    Returned("strip") =>
        \A key \in KeySet(Result) :
            LET fields == Now(Result, key)
                names  == Split(At(fields, 8), ":")
            IN  /\ At(names, 0) = GT
                /\ NoNameTwice(names)
                /\ \A i \in 10..Len(fields) : Len(Split(fields[i], ":")) = Len(names)

(***************************************************************************)
(* C27.  An update that names FORMAT keeps the layout of the sample cells: *)
(* when every cell of the two stores had one value for each name of its    *)
(* record's FORMAT before the call, every cell of the returned store and   *)
(* of the first store has one value for each name of its record's FORMAT   *)
(* after it, the FORMAT copied from the other store included.              *)
(***************************************************************************)
NamesFormat ==
    \E k \in 1..Len(last.call.names) : last.call.names[k] = VCF_HEADERS[9]

UpdateKeepsLayout ==
    ( /\ Returned("update") /\ NamesFormat
      /\ LayoutOk(last.pre, Self) /\ LayoutOk(last.pre, Other) ) =>
        /\ LayoutOk(heap, Result)
        /\ LayoutOk(heap, Self)

(***************************************************************************)
(* C28.  In every store, parsed or returned by a transform, the key of     *)
(* each record is 'CHROM:POS:REF:ALT' as built from the fields 0, 1, 3 and *)
(* 4 the record has now.                                                   *)
(***************************************************************************)
KeysMatchFields ==
    \A s \in StoreIds :
        \A j \in 1..Len(stores[s].data) :
            stores[s].data[j].key = KeyOf(heap[stores[s].data[j].ref])

(***************************************************************************)
(* C29.  A strip, add_dp, filter_dp, filter_af or merge that fails because *)
(* a record lacks a subfield it looks up leaves its input store(s) as they *)
(* were before the call: no field of any record has changed.               *)
(***************************************************************************)
\* the latest call fails on a record that lacks a subfield it looks up
FailedOnSubfield ==
    /\ last.call.op \in {"strip", "add_dp", "filter_dp", "filter_af", "merge"}
    /\ last.err # "none"
    /\ IF Called("merge")
       THEN \/ ~Declares(last.pre, Self, last.call.subfields)
            \/ ~Declares(last.pre, Other, last.call.subfields)
       ELSE SomeLacks(Self)

FailureAtomic ==
    FailedOnSubfield =>
        /\ Unchanged(Self)
        /\ Called("merge") => Unchanged(Other)

(***************************************************************************)
(* C30.  The store a transform returns has no metadata, whatever metadata  *)
(* the stores it was called on hold: the text write makes of it starts     *)
(* with the header line and has no line that starts with '##'.  The        *)
(* metadata of a parsed store stays the '##' lines of its file.  (Checked  *)
(* under SpecWrite.)                                                       *)
(***************************************************************************)
Transformed(s) == origin[s].op \in Transforms

TransformsDropMeta ==
    \A s \in StoreIds :
        /\ Transformed(s) => stores[s].meta = <<>>
        /\ origin[s].op = "read" => stores[s].meta = SelectSeq(files[s], IsMetaLine)
        /\ (Transformed(s) /\ disk.by = s) =>
              /\ SplitLines(disk.text)[1] = Line(stores[s].head)
              /\ \A j \in 1..Len(SplitLines(disk.text)) :
                    ~IsMetaLine(SplitLines(disk.text)[j])

\* a store returned by a transform of a store that has metadata was written,
\* records and all
TransformsDropMetaWitness ==
    \E s \in StoreIds :
        /\ Transformed(s) /\ disk.by = s
        /\ stores[origin[s].self].meta # <<>>
        /\ Len(stores[s].data) > 0
        /\ Len(SplitLines(disk.text)) = 1 + Len(stores[s].data)

====
